---- MODULE Spec2Model ----
(***************************************************************************)
(* Model of the example Nodle plugin (src/src/lib.rs): the two sample      *)
(* nodes (HelloWorldNode, MathAddNode), their factories, the identifier    *)
(* generator, ExamplePlugin and the create_plugin / destroy_plugin entry   *)
(* points.                                                                 *)
(*                                                                         *)
(* Three specifications share the variables:                               *)
(*   SpecNode    one node built by a factory and driven through the        *)
(*               PluginNode operations;                                    *)
(*   SpecFactory a host calling create_node and dropping nodes;            *)
(*   SpecPlugin  a host driving the plugin lifecycle and a registry.       *)
(*                                                                         *)
(* f32 values are drawn from the integers -1..MaxFloat, which f32          *)
(* represents exactly and on which f32 addition is exact.  Strings are     *)
(* atomic values.  Option<T> is a sequence of length at most one.          *)
(***************************************************************************)
EXTENDS Integers, Sequences, FiniteSets, TLC

VARIABLES nodes, registry, plugins, usedAfterDrop, last

vars == <<nodes, registry, plugins, usedAfterDrop, last>>

----------------------------------------------------------------------------
(* Bounds *)

MaxFloat == 3

MaxClock == 17

MaxNodes == 2

MaxPlugins == 1

FloatVals == (0 - 1)..MaxFloat

StringVals == {"Hello from plugin!", "hi"}

Positions == {<<0, 0>>, <<1, 2>>}

ParamNames == {"message", "a", "b", "c"}

PortNames == {"A", "B"}

\* SystemTime::now() relative to UNIX_EPOCH, in nanoseconds; -1 stands for
\* a system clock set before the epoch.
ClockVals == (0 - 1)..MaxClock

----------------------------------------------------------------------------
(* NodeData and Option *)

None == <<>>

Some(x) == <<x>>

Float(f) == [kind |-> "Float", val |-> f]

String(s) == [kind |-> "String", val |-> s]

NodeData == {Float(f) : f \in FloatVals} \cup {String(s) : s \in StringVals}

as_float(value) == IF value.kind = "Float" THEN Some(value.val) ELSE None

as_string(value) == IF value.kind = "String" THEN Some(value.val) ELSE None

\* HashMap<String, NodeData>::get
MapGet(map, key) == IF key \in DOMAIN map THEN Some(map[key]) ELSE None

\* HashMap<String, NodeData> over the port names
InputMaps == UNION {[d -> NodeData] : d \in SUBSET PortNames}

EmptyMap == CHOOSE m \in InputMaps : DOMAIN m = {}

----------------------------------------------------------------------------
(* Formatting *)

HexDigits == <<"0", "1", "2", "3", "4", "5", "6", "7",
               "8", "9", "a", "b", "c", "d", "e", "f">>

RECURSIVE LowerHex(_)
\* format!("{:x}", n)
LowerHex(n) ==
    IF n < 16 THEN <<HexDigits[n + 1]>>
    ELSE Append(LowerHex(n \div 16), HexDigits[(n % 16) + 1])

RECURSIVE Decimal(_)
Decimal(n) ==
    IF n < 10 THEN <<HexDigits[n + 1]>>
    ELSE Append(Decimal(n \div 10), HexDigits[(n % 10) + 1])

\* format!("{}", x) of an integral f32
DisplayFloat(x) == IF x < 0 THEN <<"-">> \o Decimal(0 - x) ELSE Decimal(x)

----------------------------------------------------------------------------
(* uuid and the constructors *)

\* duration_since(UNIX_EPOCH).unwrap() panics for a clock before the epoch.
uuid(clock) ==
    IF clock < 0 THEN [panic |-> TRUE]
    ELSE [panic |-> FALSE, val |-> LowerHex(clock)]

HelloWorldNode_new(position, clock) ==
    LET u == uuid(clock) IN
    IF u.panic THEN [panic |-> TRUE]
    ELSE [panic |-> FALSE,
          node |-> [type |-> "HelloWorldNode",
                    id |-> <<"hello_world_">> \o u.val,
                    position |-> position,
                    message |-> "Hello from plugin!"]]

MathAddNode_new(position, clock) ==
    LET u == uuid(clock) IN
    IF u.panic THEN [panic |-> TRUE]
    ELSE [panic |-> FALSE,
          node |-> [type |-> "MathAddNode",
                    id |-> <<"math_add_">> \o u.val,
                    position |-> position,
                    a |-> 0,
                    b |-> 0]]

----------------------------------------------------------------------------
(* HelloWorldNode *)

HelloWorldNode_get_parameter_ui(self) ==
    << [el |-> "Heading", text |-> "Hello World Node"],
       [el |-> "Separator"],
       [el |-> "TextEdit", label |-> "Message", value |-> self.message,
        parameter_name |-> "message"] >>

HelloWorldNode_handle_ui_action(self, action) ==
    IF action.kind = "ParameterChanged" /\ action.parameter = "message"
       /\ as_string(action.value) # None
    THEN LET self1 == [self EXCEPT !.message = as_string(action.value)[1]] IN
         [node |-> self1,
          changes |-> <<[parameter |-> "message",
                         value |-> String(self1.message)]>>]
    ELSE [node |-> self, changes |-> <<>>]

HelloWorldNode_get_parameter(self, name) ==
    IF name = "message" THEN Some(String(self.message)) ELSE None

\* Mutant: the name is not looked at.
HelloWorldNode_set_parameter_any_name(self, name, value) ==
    IF as_string(value) # None
    THEN [self EXCEPT !.message = as_string(value)[1]]
    ELSE self

HelloWorldNode_set_parameter(self, name, value) ==
    IF name = "message" /\ as_string(value) # None
    THEN [self EXCEPT !.message = as_string(value)[1]]
    ELSE self

HelloWorldNode_process(self, inputs) ==
    [node |-> self, outputs |-> [p \in {"Message"} |-> String(self.message)]]

----------------------------------------------------------------------------
(* MathAddNode *)

\* Mutant: the slider of "b" shows a.
MathAddNode_get_parameter_ui_stale(self) ==
    << [el |-> "Heading", text |-> "Math Add Node (Plugin)"],
       [el |-> "Separator"],
       [el |-> "Slider", label |-> "A", value |-> self.a,
        min |-> 0 - 100, max |-> 100, parameter_name |-> "a"],
       [el |-> "Slider", label |-> "B", value |-> self.a,
        min |-> 0 - 100, max |-> 100, parameter_name |-> "b"],
       [el |-> "Label",
        text |-> <<"Result: ">> \o DisplayFloat(self.a + self.b)] >>

MathAddNode_get_parameter_ui(self) ==
    << [el |-> "Heading", text |-> "Math Add Node (Plugin)"],
       [el |-> "Separator"],
       [el |-> "Slider", label |-> "A", value |-> self.a,
        min |-> 0 - 100, max |-> 100, parameter_name |-> "a"],
       [el |-> "Slider", label |-> "B", value |-> self.b,
        min |-> 0 - 100, max |-> 100, parameter_name |-> "b"],
       [el |-> "Label",
        text |-> <<"Result: ">> \o DisplayFloat(self.a + self.b)] >>

\* Mutant: the "b" arm reports the change without committing it.
MathAddNode_handle_ui_action_uncommitted(self, action) ==
    IF action.kind = "ParameterChanged"
    THEN CASE action.parameter = "a" /\ as_float(action.value) # None ->
                LET val == as_float(action.value)[1] IN
                [node |-> [self EXCEPT !.a = val],
                 changes |-> <<[parameter |-> "a", value |-> Float(val)]>>]
           [] action.parameter = "b" /\ as_float(action.value) # None ->
                LET val == as_float(action.value)[1] IN
                [node |-> self,
                 changes |-> <<[parameter |-> "b", value |-> Float(val)]>>]
           [] OTHER -> [node |-> self, changes |-> <<>>]
    ELSE [node |-> self, changes |-> <<>>]

MathAddNode_handle_ui_action(self, action) ==
    IF action.kind = "ParameterChanged"
    THEN CASE action.parameter = "a" /\ as_float(action.value) # None ->
                LET val == as_float(action.value)[1] IN
                [node |-> [self EXCEPT !.a = val],
                 changes |-> <<[parameter |-> "a", value |-> Float(val)]>>]
           [] action.parameter = "b" /\ as_float(action.value) # None ->
                LET val == as_float(action.value)[1] IN
                [node |-> [self EXCEPT !.b = val],
                 changes |-> <<[parameter |-> "b", value |-> Float(val)]>>]
           [] OTHER -> [node |-> self, changes |-> <<>>]
    ELSE [node |-> self, changes |-> <<>>]

MathAddNode_get_parameter(self, name) ==
    CASE name = "a" -> Some(Float(self.a))
      [] name = "b" -> Some(Float(self.b))
      [] OTHER -> None

\* Mutant: the "b" arm writes a.
MathAddNode_set_parameter_swapped(self, name, value) ==
    CASE name = "a" /\ as_float(value) # None ->
            [self EXCEPT !.a = as_float(value)[1]]
      [] name = "b" /\ as_float(value) # None ->
            [self EXCEPT !.a = as_float(value)[1]]
      [] OTHER -> self

MathAddNode_set_parameter(self, name, value) ==
    CASE name = "a" /\ as_float(value) # None ->
            [self EXCEPT !.a = as_float(value)[1]]
      [] name = "b" /\ as_float(value) # None ->
            [self EXCEPT !.b = as_float(value)[1]]
      [] OTHER -> self

\* Mutant: the inputs are used for the result but not stored.
MathAddNode_process_not_stored(self, inputs) ==
    LET inA == MapGet(inputs, "A")
        a == IF inA # None /\ inA[1].kind = "Float" THEN inA[1].val ELSE self.a
        inB == MapGet(inputs, "B")
        b == IF inB # None /\ inB[1].kind = "Float" THEN inB[1].val ELSE self.b
    IN [node |-> self, outputs |-> [p \in {"Result"} |-> Float(a + b)]]

\* Mutant: the input on "A" is added to the stored a.
MathAddNode_process_accumulating(self, inputs) ==
    LET inA == MapGet(inputs, "A")
        self1 == IF inA # None /\ inA[1].kind = "Float"
                 THEN [self EXCEPT !.a = self.a + inA[1].val] ELSE self
        inB == MapGet(inputs, "B")
        self2 == IF inB # None /\ inB[1].kind = "Float"
                 THEN [self1 EXCEPT !.b = inB[1].val] ELSE self1
    IN [node |-> self2,
        outputs |-> [p \in {"Result"} |-> Float(self2.a + self2.b)]]

MathAddNode_process(self, inputs) ==
    LET inA == MapGet(inputs, "A")
        self1 == IF inA # None /\ inA[1].kind = "Float"
                 THEN [self EXCEPT !.a = inA[1].val] ELSE self
        inB == MapGet(inputs, "B")
        self2 == IF inB # None /\ inB[1].kind = "Float"
                 THEN [self1 EXCEPT !.b = inB[1].val] ELSE self1
    IN [node |-> self2,
        outputs |-> [p \in {"Result"} |-> Float(self2.a + self2.b)]]

----------------------------------------------------------------------------
(* Dispatch through dyn PluginNode *)

id(self) == self.id

position(self) == self.position

set_position(self, pos) == [self EXCEPT !.position = pos]

get_parameter_ui(self) ==
    IF self.type = "HelloWorldNode" THEN HelloWorldNode_get_parameter_ui(self)
    ELSE MathAddNode_get_parameter_ui(self)

handle_ui_action(self, action) ==
    IF self.type = "HelloWorldNode"
    THEN HelloWorldNode_handle_ui_action(self, action)
    ELSE MathAddNode_handle_ui_action(self, action)

get_parameter(self, name) ==
    IF self.type = "HelloWorldNode" THEN HelloWorldNode_get_parameter(self, name)
    ELSE MathAddNode_get_parameter(self, name)

set_parameter(self, name, value) ==
    IF self.type = "HelloWorldNode"
    THEN HelloWorldNode_set_parameter(self, name, value)
    ELSE MathAddNode_set_parameter(self, name, value)

process(self, inputs) ==
    IF self.type = "HelloWorldNode" THEN HelloWorldNode_process(self, inputs)
    ELSE MathAddNode_process(self, inputs)

\* UIAction values the UI layer can send
UIActions ==
    {[kind |-> "ParameterChanged", parameter |-> p, value |-> v] :
        p \in ParamNames, v \in NodeData}
    \cup {[kind |-> "ButtonClicked", action |-> "reset"]}

----------------------------------------------------------------------------
(* The host driving one node (SpecNode).  `last` records the call that     *)
(* was made last: its arguments, the node before and after, its result.    *)

Returned == "returned"

Unwound == "unwound"

SetPosition(i, pos) ==
    /\ nodes' = [nodes EXCEPT ![i] = set_position(nodes[i], pos)]
    /\ last' = [op |-> "set_position", i |-> i, pos |-> pos,
                pre |-> nodes[i], post |-> nodes'[i], outcome |-> Returned]
    /\ UNCHANGED <<registry, plugins, usedAfterDrop>>

GetParameterUi(i) ==
    /\ last' = [op |-> "get_parameter_ui", i |-> i,
                pre |-> nodes[i], post |-> nodes[i],
                ui |-> get_parameter_ui(nodes[i]), outcome |-> Returned]
    /\ UNCHANGED <<nodes, registry, plugins, usedAfterDrop>>

HandleUiAction(i, action) ==
    LET r == handle_ui_action(nodes[i], action) IN
    /\ nodes' = [nodes EXCEPT ![i] = r.node]
    /\ last' = [op |-> "handle_ui_action", i |-> i, action |-> action,
                pre |-> nodes[i], post |-> r.node, changes |-> r.changes,
                outcome |-> Returned]
    /\ UNCHANGED <<registry, plugins, usedAfterDrop>>

\* `follows` is the value of a set_parameter call on the same node and name
\* that this call follows immediately.
GetParameter(i, name) ==
    /\ last' = [op |-> "get_parameter", i |-> i, name |-> name,
                pre |-> nodes[i], post |-> nodes[i],
                result |-> get_parameter(nodes[i], name),
                follows |-> IF last.op = "set_parameter" /\ last.i = i
                               /\ last.name = name
                            THEN Some(last.value) ELSE None,
                outcome |-> Returned]
    /\ UNCHANGED <<nodes, registry, plugins, usedAfterDrop>>

SetParameter(i, name, value) ==
    /\ nodes' = [nodes EXCEPT ![i] = set_parameter(nodes[i], name, value)]
    /\ last' = [op |-> "set_parameter", i |-> i, name |-> name,
                value |-> value, pre |-> nodes[i], post |-> nodes'[i],
                outcome |-> Returned]
    /\ UNCHANGED <<registry, plugins, usedAfterDrop>>

\* `repeat` holds when this call follows a process call on the same node
\* with the same inputs; `prev_outputs` is then what that call returned.
Process(i, inputs) ==
    LET r == process(nodes[i], inputs)
        rep == last.op = "process" /\ last.i = i /\ last.inputs = inputs
    IN
    /\ nodes' = [nodes EXCEPT ![i] = r.node]
    /\ last' = [op |-> "process", i |-> i, inputs |-> inputs,
                pre |-> nodes[i], post |-> r.node, outputs |-> r.outputs,
                repeat |-> rep,
                prev_outputs |-> IF rep THEN Some(last.outputs) ELSE None,
                outcome |-> Returned]
    /\ UNCHANGED <<registry, plugins, usedAfterDrop>>

\* The nodes a factory can have built, for one reading of the clock.
NewNodes ==
    {HelloWorldNode_new(p, MaxClock).node : p \in Positions}
    \cup {MathAddNode_new(p, MaxClock).node : p \in Positions}

InitNode ==
    /\ nodes \in {<<n>> : n \in NewNodes}
    /\ registry = {}
    /\ plugins = <<>>
    /\ usedAfterDrop = FALSE
    /\ last = [op |-> "new", outcome |-> Returned]

NextNode ==
    \/ \E i \in 1..Len(nodes), pos \in Positions : SetPosition(i, pos)
    \/ \E i \in 1..Len(nodes) : GetParameterUi(i)
    \/ \E i \in 1..Len(nodes), action \in UIActions : HandleUiAction(i, action)
    \/ \E i \in 1..Len(nodes), name \in ParamNames : GetParameter(i, name)
    \/ \E i \in 1..Len(nodes), name \in ParamNames, value \in NodeData :
          SetParameter(i, name, value)
    \/ \E i \in 1..Len(nodes), inputs \in InputMaps : Process(i, inputs)

SpecNode == InitNode /\ [][NextNode]_vars

----------------------------------------------------------------------------
(* Factories *)

HelloWorldNodeFactory_metadata ==
    [type_id |-> "HelloWorld", display_name |-> "Hello World",
     category |-> "Utility",
     description |-> "A simple node that displays a greeting",
     workspaces |-> <<"3D", "General">>,
     inputs |-> <<>>,
     outputs |-> <<[name |-> "Message", data_type |-> "String",
                    required |-> TRUE]>>]

HelloWorldNodeFactory_create_node(pos, clock) == HelloWorldNode_new(pos, clock)

MathAddNodeFactory_metadata ==
    [type_id |-> "PluginMathAdd", display_name |-> "Add (Plugin)",
     category |-> "Math",
     description |-> "Adds two numbers together (from plugin)",
     workspaces |-> <<"3D", "General">>,
     inputs |-> <<[name |-> "A", data_type |-> "Float", required |-> TRUE],
                  [name |-> "B", data_type |-> "Float", required |-> TRUE]>>,
     outputs |-> <<[name |-> "Result", data_type |-> "Float",
                    required |-> TRUE]>>]

MathAddNodeFactory_create_node(pos, clock) == MathAddNode_new(pos, clock)

PluginFactories == {"HelloWorldNodeFactory", "MathAddNodeFactory"}

\* Factories of other plugins loaded by the same host, by type identifier.
ForeignFactories == {"ForeignHelloWorld", "ForeignMathAdd", "ForeignOther"}

ForeignTypeId ==
    [ForeignHelloWorld |-> "HelloWorld", ForeignMathAdd |-> "PluginMathAdd",
     ForeignOther |-> "Other"]

\* The type identifier of factory.metadata(), through dyn NodeFactory
type_id(factory) ==
    CASE factory = "HelloWorldNodeFactory" -> HelloWorldNodeFactory_metadata.type_id
      [] factory = "MathAddNodeFactory" -> MathAddNodeFactory_metadata.type_id
      [] OTHER -> ForeignTypeId[factory]

create_node(factory, pos, clock) ==
    IF factory = "HelloWorldNodeFactory"
    THEN HelloWorldNodeFactory_create_node(pos, clock)
    ELSE MathAddNodeFactory_create_node(pos, clock)

----------------------------------------------------------------------------
(* The host creating and dropping nodes (SpecFactory) *)

CreateNode(factory, pos, clock) ==
    LET r == create_node(factory, pos, clock) IN
    /\ Len(nodes) < MaxNodes
    /\ nodes' = IF r.panic THEN nodes ELSE Append(nodes, r.node)
    /\ last' = [op |-> "create_node", factory |-> factory,
                outcome |-> IF r.panic THEN Unwound ELSE Returned]
    /\ UNCHANGED <<registry, plugins, usedAfterDrop>>

DropNode(i) ==
    /\ nodes' = [k \in 1..(Len(nodes) - 1) |->
                    IF k < i THEN nodes[k] ELSE nodes[k + 1]]
    /\ last' = [op |-> "drop_node", outcome |-> Returned]
    /\ UNCHANGED <<registry, plugins, usedAfterDrop>>

InitHost ==
    /\ nodes = <<>>
    /\ registry = {}
    /\ plugins = <<>>
    /\ usedAfterDrop = FALSE
    /\ last = [op |-> "none", outcome |-> Returned]

NextFactory ==
    \/ \E factory \in PluginFactories, pos \in Positions, clock \in ClockVals :
          CreateNode(factory, pos, clock)
    \/ \E i \in 1..Len(nodes) : DropNode(i)

SpecFactory == InitHost /\ [][NextFactory]_vars

----------------------------------------------------------------------------
(* Registry, plugin and handle *)

Ok == "Ok"

DuplicateType == "DuplicateType"

\* Mutant: a registration under a present type identifier replaces the
\* factory registered first.
register_node_factory_overwrite(reg, factory) ==
    [result |-> Ok,
     registry |-> {g \in reg : type_id(g) # type_id(factory)} \cup {factory}]

\* NodeRegistryTrait::register_node_factory: the registry is the set of the
\* factories it holds, keyed by their type identifier.
register_node_factory(reg, factory) ==
    IF \E g \in reg : type_id(g) = type_id(factory)
    THEN [result |-> DuplicateType, registry |-> reg]
    ELSE [result |-> Ok, registry |-> reg \cup {factory}]

\* One register_node_factory call, as recorded in `last`.
Call(reg, factory) ==
    LET r == register_node_factory(reg, factory) IN
    [factory |-> factory, pre |-> reg, result |-> r.result,
     post |-> r.registry]

ExamplePlugin_plugin_info ==
    [name |-> "Example Plugin", version |-> "0.1.0",
     author |-> "Plugin Developer",
     description |-> "An example plugin demonstrating basic functionality",
     compatible_version |-> "0.1.0"]

\* Each registration result is unwrapped: an Err panics on the spot.
ExamplePlugin_register_nodes(reg) ==
    LET c1 == Call(reg, "HelloWorldNodeFactory") IN
    IF c1.result # Ok
    THEN [panic |-> TRUE, registry |-> c1.post, calls |-> <<c1>>]
    ELSE LET c2 == Call(c1.post, "MathAddNodeFactory") IN
         [panic |-> c2.result # Ok, registry |-> c2.post,
          calls |-> <<c1, c2>>]

ExamplePlugin_on_load ==
    [result |-> Ok, printed |-> "Example Plugin loaded successfully!"]

ExamplePlugin_on_unload ==
    [result |-> Ok, printed |-> "Example Plugin unloaded"]

\* PluginHandle::new(Box::new(ExamplePlugin)): a handle that owns the
\* plugin object.  conversions and drops count what has happened to it.
create_plugin ==
    [handle |-> "live", object |-> "alive", conversions |-> 0, drops |-> 0]

\* PluginHandle::into_plugin: the handle is consumed and the plugin object
\* is owned by the caller.
into_plugin(h) ==
    [h EXCEPT !.handle = "consumed", !.conversions = @ + 1]

\* Mutant: the handle is let go without being converted back, so the plugin
\* object is never released.
destroy_plugin_leaks(h) == [h EXCEPT !.handle = "consumed"]

\* The plugin object obtained from the handle is dropped at once.
destroy_plugin(h) ==
    LET plugin == into_plugin(h) IN
    [plugin EXCEPT !.object = "dropped", !.drops = @ + 1]

----------------------------------------------------------------------------
(* The host driving the plugin lifecycle (SpecPlugin).  A plugin function  *)
(* is called through a handle the host still holds; destroy_plugin takes   *)
(* the handle by value, after which the host holds it no more.             *)

Held(p) == plugins[p].handle = "live"

Touch(p) == usedAfterDrop' = (usedAfterDrop \/ plugins[p].object # "alive")

CreatePlugin ==
    /\ Len(plugins) < MaxPlugins
    /\ plugins' = Append(plugins, create_plugin)
    /\ last' = [op |-> "create_plugin", p |-> Len(plugins) + 1,
                outcome |-> Returned]
    /\ UNCHANGED <<nodes, registry, usedAfterDrop>>

PluginInfo(p) ==
    /\ Held(p)
    /\ Touch(p)
    /\ last' = [op |-> "plugin_info", p |-> p,
                result |-> ExamplePlugin_plugin_info, outcome |-> Returned]
    /\ UNCHANGED <<nodes, registry, plugins>>

OnLoad(p) ==
    /\ Held(p)
    /\ Touch(p)
    /\ last' = [op |-> "on_load", p |-> p,
                result |-> ExamplePlugin_on_load.result,
                printed |-> ExamplePlugin_on_load.printed,
                outcome |-> Returned]
    /\ UNCHANGED <<nodes, registry, plugins>>

OnUnload(p) ==
    /\ Held(p)
    /\ Touch(p)
    /\ last' = [op |-> "on_unload", p |-> p,
                result |-> ExamplePlugin_on_unload.result,
                printed |-> ExamplePlugin_on_unload.printed,
                outcome |-> Returned]
    /\ UNCHANGED <<nodes, registry, plugins>>

RegisterNodes(p) ==
    LET r == ExamplePlugin_register_nodes(registry) IN
    /\ Held(p)
    /\ Touch(p)
    /\ registry' = r.registry
    /\ last' = [op |-> "register_nodes", p |-> p, calls |-> r.calls,
                outcome |-> IF r.panic THEN Unwound ELSE Returned]
    /\ UNCHANGED <<nodes, plugins>>

\* Another plugin of the host registers one of its factories.
HostRegister(factory) ==
    LET c == Call(registry, factory) IN
    /\ registry' = c.post
    /\ last' = [op |-> "register_node_factory", calls |-> <<c>>,
                outcome |-> Returned]
    /\ UNCHANGED <<nodes, plugins, usedAfterDrop>>

DestroyPlugin(p) ==
    /\ Held(p)
    /\ plugins' = [plugins EXCEPT ![p] = destroy_plugin(plugins[p])]
    /\ last' = [op |-> "destroy_plugin", p |-> p, outcome |-> Returned]
    /\ UNCHANGED <<nodes, registry, usedAfterDrop>>

NextPlugin ==
    \/ CreatePlugin
    \/ \E p \in 1..Len(plugins) : PluginInfo(p)
    \/ \E p \in 1..Len(plugins) : OnLoad(p)
    \/ \E p \in 1..Len(plugins) : OnUnload(p)
    \/ \E p \in 1..Len(plugins) : RegisterNodes(p)
    \/ \E factory \in ForeignFactories : HostRegister(factory)
    \/ \E p \in 1..Len(plugins) : DestroyPlugin(p)

SpecPlugin == InitHost /\ [][NextPlugin]_vars

----------------------------------------------------------------------------
(* Properties of the node operations, checked under SpecNode *)

\* The parameters each node type declares, with the kind of their values.
DeclaredKind ==
    [HelloWorldNode |-> [message |-> "String"],
     MathAddNode |-> [a |-> "Float", b |-> "Float"]]

Declared(self, name) == name \in DOMAIN DeclaredKind[self.type]

Matches(self, name, value) ==
    Declared(self, name) /\ DeclaredKind[self.type][name] = value.kind

\* C1: a get_parameter(name) that immediately follows set_parameter(name,
\* value) on the same node, for a declared name and a value of the declared
\* kind, returns that value.
C1_SetThenGet ==
    (last.op = "get_parameter" /\ last.follows # None
        /\ Matches(last.pre, last.name, last.follows[1]))
    => last.result = last.follows

C1_Witness ==
    /\ last.op = "get_parameter"
    /\ last.pre.type = "MathAddNode"
    /\ last.name = "b"
    /\ last.follows = Some(Float(2))
    /\ last.result = Some(Float(2))
    /\ last.pre.a = 3

\* C2: get_parameter of an undeclared name returns nothing; set_parameter
\* with an undeclared name or a value of the wrong kind returns normally and
\* leaves the whole node (parameters, id, position) as it was.
C2_UnknownIsNoOp ==
    /\ (last.op = "get_parameter" /\ ~Declared(last.pre, last.name))
        => last.result = None
    /\ (last.op = "set_parameter"
            /\ ~Matches(last.pre, last.name, last.value))
        => (/\ last.post = last.pre
            /\ nodes[last.i] = last.pre
            /\ last.outcome = Returned)

C2_Witness ==
    /\ last.op = "set_parameter"
    /\ last.pre.type = "MathAddNode"
    /\ last.name = "a"
    /\ last.value = String("hi")
    /\ last.pre.a = 2
    /\ nodes[last.i].a = 2

\* C3: handle_ui_action(ParameterChanged{P, V}) with P declared and V of the
\* declared kind leaves the node as set_parameter(P, V) would and returns one
\* change naming P with the committed value; any other action returns no
\* change and leaves the node as it was.
C3_UiActionAsSetParameter ==
    last.op = "handle_ui_action" =>
        IF last.action.kind = "ParameterChanged"
           /\ Matches(last.pre, last.action.parameter, last.action.value)
        THEN /\ last.post
                  = set_parameter(last.pre, last.action.parameter,
                                  last.action.value)
             /\ nodes[last.i] = last.post
             /\ Len(last.changes) = 1
             /\ last.changes[1].parameter = last.action.parameter
             /\ Some(last.changes[1].value)
                  = get_parameter(last.post, last.action.parameter)
        ELSE /\ last.changes = <<>>
             /\ last.post = last.pre
             /\ nodes[last.i] = last.pre

C3_Witness ==
    /\ last.op = "handle_ui_action"
    /\ last.pre.type = "MathAddNode"
    /\ last.action.kind = "ParameterChanged"
    /\ last.action.parameter = "b"
    /\ last.action.value = Float(3)
    /\ last.pre.b = 1
    /\ last.changes = <<[parameter |-> "b", value |-> Float(3)]>>

\* The value process uses for a parameter: the Float input on its port when
\* there is one, the stored value otherwise.
Effective(inputs, port, stored) ==
    IF port \in DOMAIN inputs /\ inputs[port].kind = "Float"
    THEN inputs[port].val ELSE stored

\* C4: MathAddNode.process returns exactly {"Result": a + b}, where a and b
\* are the Float inputs on ports "A" and "B" when supplied and the stored
\* values otherwise; the inputs used are stored, so get_parameter returns
\* them afterwards, and with no inputs a and b are unchanged.
C4_ProcessAdds ==
    (last.op = "process" /\ last.pre.type = "MathAddNode") =>
        LET ea == Effective(last.inputs, "A", last.pre.a)
            eb == Effective(last.inputs, "B", last.pre.b)
        IN /\ DOMAIN last.outputs = {"Result"}
           /\ last.outputs["Result"] = Float(ea + eb)
           /\ get_parameter(nodes[last.i], "a") = Some(Float(ea))
           /\ get_parameter(nodes[last.i], "b") = Some(Float(eb))
           /\ (last.inputs = EmptyMap => nodes[last.i] = last.pre)

C4_Witness ==
    /\ last.op = "process"
    /\ last.pre.type = "MathAddNode"
    /\ last.pre.a = 0
    /\ last.pre.b = 0
    /\ last.inputs = [p \in {"A", "B"} |-> IF p = "A" THEN Float(2) ELSE Float(3)]
    /\ last.outputs = [p \in {"Result"} |-> Float(5)]

\* C9: process always returns; a missing input leaves the stored value in
\* use; a process call repeated with the same inputs returns the same
\* outputs and leaves the node as the first call left it;
\* HelloWorldNode.process returns {"Message": message} and changes nothing.
C9_ProcessRepeatable ==
    last.op = "process" =>
        /\ last.outcome = Returned
        /\ nodes[last.i] = last.post
        /\ last.repeat =>
              (last.prev_outputs = Some(last.outputs) /\ last.post = last.pre)
        /\ last.pre.type = "MathAddNode" =>
              (/\ "A" \notin DOMAIN last.inputs => last.post.a = last.pre.a
               /\ "B" \notin DOMAIN last.inputs => last.post.b = last.pre.b
               /\ last.outputs["Result"].val = last.post.a + last.post.b)
        /\ last.pre.type = "HelloWorldNode" =>
              (/\ last.outputs
                    = [p \in {"Message"} |-> String(last.pre.message)]
               /\ last.post = last.pre)

C9_Witness ==
    /\ last.op = "process"
    /\ last.repeat
    /\ last.pre.type = "MathAddNode"
    /\ DOMAIN last.inputs = {"A"}
    /\ last.inputs["A"] = Float(2)
    /\ last.pre.b = 3
    /\ last.outputs["Result"] = Float(5)

BoundElements(ui) ==
    {ui[k] : k \in {j \in 1..Len(ui) : "parameter_name" \in DOMAIN ui[j]}}

ElementValue(e) ==
    IF e.el = "TextEdit" THEN String(e.value) ELSE Float(e.value)

\* C10: in every state the UI description carries, for each element bound
\* to a parameter, the value get_parameter returns for it; every declared
\* parameter has such an element; the MathAdd label shows the Result that
\* process with no inputs returns; get_parameter_ui changes no node state.
C10_UiReflectsState ==
    /\ \A i \in 1..Len(nodes) :
          LET self == nodes[i]
              ui == get_parameter_ui(self)
          IN /\ \A e \in BoundElements(ui) :
                    get_parameter(self, e.parameter_name)
                        = Some(ElementValue(e))
             /\ {e.parameter_name : e \in BoundElements(ui)}
                    = DOMAIN DeclaredKind[self.type]
             /\ self.type = "MathAddNode" =>
                    ui[Len(ui)]
                      = [el |-> "Label",
                         text |-> <<"Result: ">> \o DisplayFloat(
                            process(self, EmptyMap).outputs["Result"].val)]
    /\ last.op = "get_parameter_ui" =>
          (/\ nodes[last.i] = last.pre
           /\ last.ui = get_parameter_ui(nodes[last.i]))

C10_Witness ==
    /\ last.op = "get_parameter_ui"
    /\ last.pre.type = "MathAddNode"
    /\ last.pre.a = 2
    /\ last.pre.b = 0 - 1
    /\ last.ui[3].value = 2
    /\ last.ui[4].value = 0 - 1
    /\ last.ui[5].text = <<"Result: ", "1">>

----------------------------------------------------------------------------
(* Properties of the plugin and the registry, checked under SpecPlugin *)

RegistrationOps == {"register_nodes", "register_node_factory"}

\* C5: a register_nodes call in which a registration fails returns to the
\* host normally, with the failure reported, and does not unwind.
C5_RegistrationFailureReturns ==
    (last.op = "register_nodes"
        /\ \E k \in 1..Len(last.calls) : last.calls[k].result # Ok)
    => last.outcome = Returned

\* C6: a handle returned by create_plugin is live and owns a live plugin
\* object; it is converted back at most once; destroy_plugin returns, has
\* converted its handle once and released the plugin object once; no plugin
\* function runs on a plugin object that has been released.
C6_HandleLifecycle ==
    /\ ~usedAfterDrop
    /\ \A p \in 1..Len(plugins) :
          /\ plugins[p].conversions <= 1
          /\ plugins[p].drops <= 1
          /\ plugins[p].handle = "live" =>
                (/\ plugins[p].object = "alive"
                 /\ plugins[p].conversions = 0
                 /\ plugins[p].drops = 0)
          /\ plugins[p].handle = "consumed" =>
                (/\ plugins[p].object = "dropped"
                 /\ plugins[p].conversions = 1
                 /\ plugins[p].drops = 1)
    /\ last.op = "create_plugin" => plugins[last.p].handle = "live"
    /\ last.op = "destroy_plugin" =>
          (/\ last.outcome = Returned
           /\ plugins[last.p].handle = "consumed"
           /\ plugins[last.p].drops = 1)
    /\ last.op \in {"on_load", "on_unload"} =>
          (last.result = Ok /\ last.outcome = Returned)

C6_Witness ==
    /\ last.op = "destroy_plugin"
    /\ plugins[last.p].handle = "consumed"
    /\ plugins[last.p].object = "dropped"
    /\ plugins[last.p].drops = 1
    /\ "MathAddNodeFactory" \in registry

\* C7: no two factories of the registry share a type identifier; a
\* register_node_factory call whose type identifier is present fails with
\* DuplicateType and leaves the registry as it was; no call removes or
\* replaces a factory registered before.
C7_NoOverwrite ==
    /\ \A f \in registry : \A g \in registry :
          type_id(f) = type_id(g) => f = g
    /\ last.op \in RegistrationOps =>
          \A k \in 1..Len(last.calls) :
             LET c == last.calls[k] IN
             /\ c.pre \subseteq c.post
             /\ c.post \subseteq registry
             /\ (\E g \in c.pre : type_id(g) = type_id(c.factory))
                   => (c.result = DuplicateType /\ c.post = c.pre)

C7_Witness ==
    /\ last.op = "register_nodes"
    /\ Len(last.calls) = 2
    /\ last.calls[2].result = DuplicateType
    /\ "ForeignMathAdd" \in registry
    /\ "HelloWorldNodeFactory" \in registry
    /\ "MathAddNodeFactory" \notin registry

\* The same plugin registered twice: the second register_nodes fails on its
\* first registration.
C7_WitnessTwice ==
    /\ last.op = "register_nodes"
    /\ Len(last.calls) = 1
    /\ last.calls[1].result = DuplicateType
    /\ "HelloWorldNodeFactory" \in last.calls[1].pre

----------------------------------------------------------------------------
(* Properties of the factories, checked under SpecFactory *)

\* C8: any two live nodes have different identifiers.
C8_FreshIdentity ==
    \A i \in 1..Len(nodes) : \A j \in 1..Len(nodes) :
        i # j => id(nodes[i]) # id(nodes[j])

====
